---- MODULE Spec2Model ----
(***************************************************************************)
(* Model of the VoiceMark transcription sidecar's streaming session        *)
(* (sidecar/src/stream.rs) and the shared engine handle                    *)
(* (sidecar/src/transcribe.rs).                                            *)
(*                                                                         *)
(* Representation.                                                         *)
(*  - A sample is the i16 value v read from the wire; the f32 the code     *)
(*    stores is v / 32768.0, which is exact in f32 for every i16, so the   *)
(*    numerator v stands for the float.                                    *)
(*  - A Vec<f32> is kept run-length encoded: a sequence of <<v, n>> runs   *)
(*    (n > 0, neighbouring runs of different v).  The encoding is          *)
(*    one-to-one, so equality of encodings is equality of vectors.         *)
(*  - A byte string is [pre, zeros]: the explicit bytes pre followed by    *)
(*    zeros bytes 0x00.                                                    *)
(*  - A base64 string is [head, As, pad]: the explicit characters head     *)
(*    (0..63 the alphabet's sextet values, BadChar a character outside     *)
(*    the alphabet), then As characters 'A' (sextet 0), then pad '='.      *)
(*  - Time is in milliseconds since the connection's task started.         *)
(***************************************************************************)
EXTENDS Integers, Sequences, FiniteSets, TLC

\* ------------------------------------------------------------ constants

SAMPLE_RATE == 16000

CHUNK_SECONDS == 6

CHUNK_SAMPLES == SAMPLE_RATE * CHUNK_SECONDS

MIN_TRANSCRIBE_INTERVAL_MS == 500

\* Bounds of the exploration.
MaxFrames == 5

MaxTime == 1000

\* Option: None and Some(x).
None == <<>>

Some(x) == <<x>>

Unwrap(o) == o[1]

Min(a, b) == IF a <= b THEN a ELSE b

\* ------------------------------------------------- run-length vectors

\* Vec::len
VecLen(v) ==
  LET F[i \in 0..Len(v)] == IF i = 0 THEN 0 ELSE F[i - 1] + v[i][2]
  IN F[Len(v)]

\* Vec::extend_from_slice: a followed by b.
VecExtend(a, b) ==
  IF a = <<>> THEN b
  ELSE IF b = <<>> THEN a
  ELSE IF a[Len(a)][1] = b[1][1]
       THEN SubSeq(a, 1, Len(a) - 1)
              \o << <<b[1][1], a[Len(a)][2] + b[1][2]>> >>
              \o SubSeq(b, 2, Len(b))
       ELSE a \o b

\* n copies of the sample v.
VecRepeat(v, n) == IF n > 0 THEN << <<v, n>> >> ELSE <<>>

\* ------------------------------------------------------- byte strings

BytesLen(d) == Len(d.pre) + d.zeros

\* The byte at position i (1-based).
ByteAt(d, i) == IF i <= Len(d.pre) THEN d.pre[i] ELSE 0

\* The same byte string with no trailing 0x00 in pre.
RECURSIVE BytesNorm(_)
BytesNorm(d) ==
  IF d.pre # <<>> /\ d.pre[Len(d.pre)] = 0
  THEN BytesNorm([pre |-> SubSeq(d.pre, 1, Len(d.pre) - 1), zeros |-> d.zeros + 1])
  ELSE d

\* The two bytes read as an unsigned integer.
I16FromLeBytes_Unsigned(lo, hi) == lo + 256 * hi

\* i16::from_le_bytes([lo, hi])
I16FromLeBytes(lo, hi) ==
  LET u == lo + 256 * hi
  IN IF u >= 32768 THEN u - 65536 ELSE u

\* bytes.chunks_exact(2).map(|c| i16::from_le_bytes([c[0], c[1]]) as f32 / 32768.0)
\* chunks_exact drops a trailing odd byte.
PcmToSamples(d) ==
  LET np == (Len(d.pre) + 1) \div 2         \* pairs that touch pre
      n  == BytesLen(d) \div 2              \* pairs in all
      ne == Min(np, n)
      F[k \in 0..ne] ==
        IF k = 0 THEN <<>>
        ELSE VecExtend(F[k - 1],
               VecRepeat(I16FromLeBytes(ByteAt(d, 2 * k - 1), ByteAt(d, 2 * k)), 1))
  IN VecExtend(F[ne], VecRepeat(0, n - ne))

\* ----------------------------------------------------- base64 strings

\* A character outside the base64 alphabet.
BadChar == 64

Base64Len(s) == Len(s.head) + s.As + s.pad

\* The sextet of the i-th character (1-based) of the data characters.
SextetAt(s, i) == IF i <= Len(s.head) THEN s.head[i] ELSE 0

\* base64::engine::general_purpose::STANDARD.encode(bytes): three bytes to
\* four characters, the last group padded with '='.
Base64Encode(d) ==
  LET L  == BytesLen(d)
      m  == 4 * (L \div 3) + (IF L % 3 = 0 THEN 0 ELSE (L % 3) + 1)
      me == Min(m, (8 * Len(d.pre) + 5) \div 6)
      Sx(i) ==
        LET g  == (i - 1) \div 4
            r  == (i - 1) % 4
            b1 == ByteAt(d, 3 * g + 1)
            b2 == ByteAt(d, 3 * g + 2)
            b3 == ByteAt(d, 3 * g + 3)
        IN CASE r = 0 -> b1 \div 4
             [] r = 1 -> (b1 % 4) * 16 + (b2 \div 16)
             [] r = 2 -> (b2 % 16) * 4 + (b3 \div 64)
             [] OTHER -> b3 % 64
  IN [head |-> [i \in 1..me |-> Sx(i)], As |-> m - me, pad |-> (3 - (L % 3)) % 3]

\* base64::engine::general_purpose::STANDARD.decode(base64_data): fails on a
\* character outside the alphabet, a length that is no multiple of 4, more
\* than two '=', and non-zero bits after the last byte.
Base64Decode(s) ==
  LET m  == Len(s.head) + s.As
      n  == m + s.pad
      last == SextetAt(s, m)
      valid ==
        /\ \A i \in 1..Len(s.head) : s.head[i] \in 0..63
        /\ n % 4 = 0
        /\ s.pad \in 0..2
        /\ s.pad = 1 => last % 4 = 0
        /\ s.pad = 2 => last % 16 = 0
      nbytes == 3 * (n \div 4) - s.pad
      ne == Min(nbytes, 3 * ((Len(s.head) + 3) \div 4))
      By(j) ==
        LET q  == (j - 1) \div 3
            r  == (j - 1) % 3
            s1 == SextetAt(s, 4 * q + 1)
            s2 == SextetAt(s, 4 * q + 2)
            s3 == SextetAt(s, 4 * q + 3)
            s4 == SextetAt(s, 4 * q + 4)
        IN CASE r = 0 -> s1 * 4 + (s2 \div 16)
             [] r = 1 -> (s2 % 16) * 16 + (s3 \div 4)
             [] OTHER -> (s3 % 4) * 64 + s4
  IN IF valid
     THEN [ok |-> TRUE, bytes |-> [pre |-> [j \in 1..ne |-> By(j)], zeros |-> nbytes - ne]]
     ELSE [ok |-> FALSE, bytes |-> [pre |-> <<>>, zeros |-> 0]]

\* decode_audio: Ok(samples) or Err.
decode_audio(base64_data) ==
  LET dec == Base64Decode(base64_data)
  IN IF ~dec.ok THEN [ok |-> FALSE, samples |-> <<>>]
     ELSE IF BytesLen(dec.bytes) % 2 # 0 THEN [ok |-> FALSE, samples |-> <<>>]
     ELSE [ok |-> TRUE, samples |-> PcmToSamples(dec.bytes)]

\* ------------------------------------------------- StreamingSession

\* StreamingSession::new
StreamingSession_new ==
  [current_chunk |-> <<>>, last_transcribe_time |-> None, transcription_pending |-> FALSE]

\* A reset that keeps last_transcribe_time.
reset_KeepsTime(s) ==
  [s EXCEPT !.current_chunk = <<>>, !.transcription_pending = FALSE]

\* StreamingSession::reset
reset(s) ==
  [s EXCEPT !.current_chunk = <<>>,
            !.last_transcribe_time = None,
            !.transcription_pending = FALSE]

\* An add_samples that reports the chunk only once it is longer than
\* CHUNK_SAMPLES.
add_samples_Strict(s, samples) ==
  LET chunk == VecExtend(s.current_chunk, samples)
  IN [session |-> [s EXCEPT !.current_chunk = chunk],
      ret     |-> VecLen(chunk) > CHUNK_SAMPLES]

\* StreamingSession::add_samples: the session afterwards and the value returned.
add_samples(s, samples) ==
  LET chunk == VecExtend(s.current_chunk, samples)
  IN [session |-> [s EXCEPT !.current_chunk = chunk],
      ret     |-> VecLen(chunk) >= CHUNK_SAMPLES]

\* A should_transcribe without the interval.
should_transcribe_NoInterval(s, t) == ~s.transcription_pending

\* StreamingSession::should_transcribe at time t.
should_transcribe(s, t) ==
  IF s.transcription_pending THEN FALSE
  ELSE IF s.last_transcribe_time = None THEN TRUE
  ELSE t - Unwrap(s.last_transcribe_time) >= MIN_TRANSCRIBE_INTERVAL_MS

\* A snapshot of the buffer's last run of equal samples only.
get_chunk_clone_Tail(s) ==
  IF s.current_chunk = <<>> THEN <<>>
  ELSE <<s.current_chunk[Len(s.current_chunk)]>>

\* StreamingSession::get_chunk_clone
get_chunk_clone(s) == s.current_chunk

\* A clear_chunk that clears nothing.
clear_chunk_Kept(s) == s

\* StreamingSession::clear_chunk
clear_chunk(s) == [s EXCEPT !.current_chunk = <<>>]

\* A has_meaningful_audio that any buffer passes.
has_meaningful_audio_Always(s) == TRUE

\* StreamingSession::has_meaningful_audio
has_meaningful_audio(s) == VecLen(s.current_chunk) >= SAMPLE_RATE \div 2

\* ------------------------------------------------------- wire messages

\* ServerMessage.  text is <<>> for String::new() and <<"transcript", a>> for
\* the text the engine returned for the samples a; the ts field is left out.
Partial(text) == [type |-> "partial", text |-> text, message |-> ""]

Final(text) == [type |-> "final", text |-> text, message |-> ""]

Error(message) == [type |-> "error", text |-> <<>>, message |-> message]

Ready(message) == [type |-> "ready", text |-> <<>>, message |-> message]

\* TranscribeResult.text of a successful call on audio_data.
ResultText(audio_data) == <<"transcript", audio_data>>

\* default_sample_rate
default_sample_rate == 16000

\* A parser that takes whatever it does not know for Reset.
ParseClientMessage_Lenient(text) == [ok |-> TRUE, tag |-> "reset"]

\* serde_json::from_str::<ClientMessage>(&text): the tag must be one of the
\* lowercase variant names, Audio needs data, sample_rate has a default.
ParseClientMessage(text) ==
  IF text.tag \notin {"audio", "end", "reset"} THEN [ok |-> FALSE]
  ELSE IF text.tag = "audio" /\ text.data = None THEN [ok |-> FALSE]
  ELSE IF text.tag = "audio"
       THEN [ok |-> TRUE, tag |-> "audio", data |-> Unwrap(text.data),
             sample_rate |-> IF text.sample_rate = None
                             THEN default_sample_rate ELSE Unwrap(text.sample_rate)]
       ELSE [ok |-> TRUE, tag |-> text.tag]

\* ------------------------------------------------- handlers, as functions
\* Each handler runs in two parts: the part up to the await of spawn_blocking
\* (under the session lock), giving the session afterwards, the call started
\* (kind and audio_data, or None) and the response when no call is started;
\* and the part after the call's outcome ("ok", "err" for a failed
\* transcribe, "join" for a failed worker task) is known.

NoCall == [kind |-> "none", audio_data |-> <<>>]

\* A rate check that accepts every rate.
RateAccepted_Any(sample_rate) == TRUE

\* handle_client_message: the negation of `sample_rate != SAMPLE_RATE`.
RateAccepted(sample_rate) == sample_rate = SAMPLE_RATE

\* An Audio handler that drops the samples of a frame that starts no call.
TextAudioStart_DropsThrottled(s, msg, t) ==
  IF ~RateAccepted(msg.sample_rate)
  THEN [session |-> s, call |-> NoCall, response |-> Some(Error("Expected sample rate"))]
  ELSE
    LET dec == decode_audio(msg.data)
    IN IF ~dec.ok
       THEN [session |-> s, call |-> NoCall, response |-> Some(Error("Failed to decode audio"))]
       ELSE
         LET a == add_samples(s, dec.samples)
             g == a.session
         IN IF a.ret
            THEN LET g1 == [g EXCEPT !.transcription_pending = TRUE]
                 IN [session |-> clear_chunk(g1),
                     call |-> [kind |-> "commit", audio_data |-> get_chunk_clone(g1)],
                     response |-> None]
            ELSE IF should_transcribe(g, t) /\ has_meaningful_audio(g)
            THEN LET g1 == [g EXCEPT !.transcription_pending = TRUE]
                 IN [session |-> g1,
                     call |-> [kind |-> "partial", audio_data |-> get_chunk_clone(g1)],
                     response |-> None]
            ELSE [session |-> s, call |-> NoCall, response |-> None]

\* handle_client_message, ClientMessage::Audio, up to the call.
TextAudioStart(s, msg, t) ==
  IF ~RateAccepted(msg.sample_rate)
  THEN [session |-> s, call |-> NoCall, response |-> Some(Error("Expected sample rate"))]
  ELSE
    LET dec == decode_audio(msg.data)
    IN IF ~dec.ok
       THEN [session |-> s, call |-> NoCall, response |-> Some(Error("Failed to decode audio"))]
       ELSE
         LET a == add_samples(s, dec.samples)
             g == a.session
         IN IF a.ret
            THEN LET g1 == [g EXCEPT !.transcription_pending = TRUE]
                 IN [session |-> clear_chunk(g1),
                     call |-> [kind |-> "commit", audio_data |-> get_chunk_clone(g1)],
                     response |-> None]
            ELSE IF should_transcribe(g, t) /\ has_meaningful_audio(g)
            THEN LET g1 == [g EXCEPT !.transcription_pending = TRUE]
                 IN [session |-> g1,
                     call |-> [kind |-> "partial", audio_data |-> get_chunk_clone(g1)],
                     response |-> None]
            ELSE [session |-> g, call |-> NoCall, response |-> None]

\* An End that transcribes whatever the buffer holds, empty or not.
TextEndStart_NoEmptyCheck(s) ==
  [session |-> reset(s), call |-> [kind |-> "end", audio_data |-> get_chunk_clone(s)],
   response |-> None]

\* handle_client_message, ClientMessage::End, up to the call.
TextEndStart(s) ==
  LET audio_data == get_chunk_clone(s)
      g == reset(s)
  IN IF audio_data = <<>>
     THEN [session |-> g, call |-> NoCall, response |-> Some(Final(<<>>))]
     ELSE [session |-> g, call |-> [kind |-> "end", audio_data |-> audio_data],
           response |-> None]

\* handle_client_message, ClientMessage::Reset.
TextReset(s) ==
  [session |-> reset(s), call |-> NoCall, response |-> Some(Ready("Session reset"))]

\* A text path that leaves the session as it is when the call has failed.
TextFinish_Wedged(s, call, outcome, t) ==
  IF outcome # "ok"
  THEN [session |-> s, response |-> Some(Error("Transcription failed"))]
  ELSE IF call.kind = "end"
  THEN [session |-> reset(s), response |-> Some(Final(ResultText(call.audio_data)))]
  ELSE [session |-> [s EXCEPT !.transcription_pending = FALSE,
                              !.last_transcribe_time = Some(t)],
        response |-> IF call.kind = "commit"
                     THEN Some(Final(ResultText(call.audio_data)))
                     ELSE Some(Partial(ResultText(call.audio_data)))]

\* A text path that, like the binary path, only logs a failed call.
TextFinish_LogOnly(s, call, outcome, t) ==
  [session |-> IF call.kind = "end" THEN reset(s)
               ELSE [s EXCEPT !.transcription_pending = FALSE,
                              !.last_transcribe_time = Some(t)],
   response |-> IF outcome = "ok"
                THEN IF call.kind = "partial"
                     THEN Some(Partial(ResultText(call.audio_data)))
                     ELSE Some(Final(ResultText(call.audio_data)))
                ELSE None]

\* handle_client_message after the call: the session and the value returned.
TextFinish(s, call, outcome, t) ==
  IF call.kind = "end"
  THEN [session |-> reset(s),
        response |-> CASE outcome = "ok"  -> Some(Final(ResultText(call.audio_data)))
                       [] outcome = "err" -> Some(Error("Finalization failed"))
                       [] OTHER           -> Some(Error("Spawn blocking failed"))]
  ELSE [session |-> [s EXCEPT !.transcription_pending = FALSE,
                              !.last_transcribe_time = Some(t)],
        response |-> CASE outcome = "ok"  ->
                            IF call.kind = "commit"
                            THEN Some(Final(ResultText(call.audio_data)))
                            ELSE Some(Partial(ResultText(call.audio_data)))
                       [] outcome = "err" -> Some(Error("Transcription failed"))
                       [] OTHER           -> Some(Error("Spawn blocking failed"))]

\* handle_socket, Message::Binary, up to the call.
BinaryStart(s, data, t) ==
  IF BytesLen(data) % 2 = 0
  THEN
    LET samples == PcmToSamples(data)
        a == add_samples(s, samples)
        g == a.session
    IN IF a.ret
       THEN LET g1 == [g EXCEPT !.transcription_pending = TRUE]
            IN [session |-> clear_chunk(g1),
                call |-> [kind |-> "commit", audio_data |-> get_chunk_clone(g1)],
                response |-> None]
       ELSE IF should_transcribe(g, t) /\ has_meaningful_audio(g)
       THEN LET g1 == [g EXCEPT !.transcription_pending = TRUE]
            IN [session |-> g1,
                call |-> [kind |-> "partial", audio_data |-> get_chunk_clone(g1)],
                response |-> None]
       ELSE [session |-> g, call |-> NoCall, response |-> None]
  ELSE [session |-> s, call |-> NoCall, response |-> None]

\* handle_socket, Message::Binary, after the call: a failed call is only logged.
BinaryFinish(s, call, outcome, t) ==
  [session |-> [s EXCEPT !.transcription_pending = FALSE,
                         !.last_transcribe_time = Some(t)],
   response |-> IF outcome = "ok"
                THEN IF call.kind = "commit"
                     THEN Some(Final(ResultText(call.audio_data)))
                     ELSE Some(Partial(ResultText(call.audio_data)))
                ELSE None]

\* ---------------------------------------------------------------- inputs

\* PCM payloads: no bytes; the two samples 0x0000 0x7FFF; three bytes;
\* 7998 samples; 88000 samples.  7998 + 2 = 8000 = SAMPLE_RATE / 2 and
\* 88000 + 7998 + 2 = 96000 = CHUNK_SAMPLES.
PcmEmpty == [pre |-> <<>>, zeros |-> 0]

PcmTiny == [pre |-> <<0, 0, 255, 127>>, zeros |-> 0]

PcmOdd == [pre |-> <<1, 2, 3>>, zeros |-> 0]

PcmShort == [pre |-> <<52, 146>>, zeros |-> 15994]

PcmLong == [pre |-> <<>>, zeros |-> 176000]

PcmPayloads == {PcmEmpty, PcmTiny, PcmOdd, PcmShort, PcmLong}

\* Strings that are not base64: a character outside the alphabet, a length
\* that is no multiple of 4.
NotBase64 ==
  {[head |-> <<0, 0, BadChar, 0>>, As |-> 0, pad |-> 0],
   [head |-> <<0, 0, 0>>, As |-> 0, pad |-> 0]}

AudioText(data, rate) == [tag |-> "audio", data |-> data, sample_rate |-> rate]

\* Text frames: Audio at 16000 Hz with each payload and with each string that
\* is not base64, Audio at another rate, Audio without sample_rate, End,
\* Reset, Audio without data, and an unknown tag.
TextFrames ==
  {AudioText(Some(Base64Encode(p)), Some(16000)) : p \in PcmPayloads}
    \cup {AudioText(Some(d), Some(16000)) : d \in NotBase64}
    \cup {AudioText(Some(Base64Encode(PcmTiny)), Some(44100))}
    \cup {AudioText(Some(Base64Encode(PcmTiny)), None)}
    \cup {AudioText(None, Some(16000))}
    \cup {[tag |-> t, data |-> None, sample_rate |-> None] : t \in {"end", "reset", "bogus"}}

\* Time passes in steps of these many milliseconds.
TickSteps == {499, 500}

\* ------------------------------------------------- one-shot transcription
\* main.rs, transcribe_audio.  A multipart body is [fields, broken]: the
\* fields next_field() yields in order, each [name, bytes] with bytes None
\* when field.bytes() fails, and whether next_field() fails after them.  A WAV
\* file is [data_start, marker, pcm]: data_start bytes of header up to and
\* including the "data" marker and the chunk size when marker is TRUE, then
\* the bytes pcm.

\* read_wav_samples: the least length of a WAV file.
WAV_MIN_LEN == 44

\* find_data_chunk: the marker and the chunk size take 8 bytes.
DATA_MARKER_LEN == 8

HttpOk(x) == [ok |-> TRUE, value |-> x, error |-> ""]

HttpErr(e) == [ok |-> FALSE, value |-> <<>>, error |-> e]

\* extract_audio_file: the bytes of the first field named "file".
extract_audio_file(multipart) ==
  LET idx == {i \in 1..Len(multipart.fields) : multipart.fields[i].name = "file"}
  IN IF idx = {}
     THEN IF multipart.broken
          THEN HttpErr("Failed to get next field")
          ELSE HttpErr("No 'file' field found in multipart form")
     ELSE LET i == CHOOSE i \in idx : \A j \in idx : i <= j
          IN IF multipart.fields[i].bytes = None
             THEN HttpErr("Failed to read file bytes")
             ELSE HttpOk(Unwrap(multipart.fields[i].bytes))

\* audio::convert_to_wav: whether ffmpeg is found, whether it exits with
\* success, and the file it writes are the environment's, given as ffmpeg.
convert_to_wav(input_bytes, ffmpeg) ==
  IF ~ffmpeg.found THEN HttpErr("Bundled ffmpeg not found")
  ELSE IF ~ffmpeg.success THEN HttpErr("ffmpeg conversion failed")
  ELSE HttpOk(ffmpeg.output)

\* audio::find_data_chunk: the marker is looked for at the positions below
\* len - 8 only.
find_data_chunk(wav) ==
  LET len == wav.data_start + BytesLen(wav.pcm)
  IN IF wav.marker /\ wav.data_start - DATA_MARKER_LEN < len - DATA_MARKER_LEN
     THEN HttpOk(wav.data_start)
     ELSE HttpErr("Could not find data chunk in WAV file")

\* audio::read_wav_samples; readable: std::fs::read succeeds.
read_wav_samples(wav, readable) ==
  IF ~readable THEN HttpErr("Failed to read WAV file")
  ELSE IF wav.data_start + BytesLen(wav.pcm) < WAV_MIN_LEN THEN HttpErr("WAV file too small")
  ELSE IF ~find_data_chunk(wav).ok THEN find_data_chunk(wav)
  ELSE HttpOk(PcmToSamples(wav.pcm))

\* transcribe::transcribe called directly: fails without a context, and may
\* fail with one (engine_ok FALSE).
transcribe(ctx, samples, engine_ok) ==
  IF ctx = None THEN HttpErr("Whisper model not initialized. Call init_model() first.")
  ELSE IF ~engine_ok THEN HttpErr("Whisper transcription failed")
  ELSE HttpOk([text |-> ResultText(samples), segments |-> <<"segments", samples>>])

\* An HTTP response: the status and the JSON body's fields (None: absent).
Response(status, error, text, segments) ==
  [status |-> status, error |-> error, text |-> text, segments |-> segments]

BAD_REQUEST == 400

INTERNAL_SERVER_ERROR == 500

OK == 200

\* A handler that transcribes before it converts and reads.
transcribe_audio_EngineFirst(ctx, req) ==
  IF transcribe(ctx, <<>>, req.engine_ok).ok
  THEN Response(OK, None, Some(ResultText(<<>>)), Some(<<"segments", <<>>>>))
  ELSE Response(INTERNAL_SERVER_ERROR, Some(<<"Transcription failed", "">>), None, None)

\* main.rs, transcribe_audio, on the request req = [multipart, ffmpeg,
\* readable, engine_ok] with the context ctx.  An error body is the prefix the
\* handler puts before the error and the error.
transcribe_audio(ctx, req) ==
  LET audio_bytes == extract_audio_file(req.multipart)
  IN IF ~audio_bytes.ok
     THEN Response(BAD_REQUEST, Some(<<"", audio_bytes.error>>), None, None)
     ELSE
       LET wav_file == convert_to_wav(audio_bytes.value, req.ffmpeg)
       IN IF ~wav_file.ok
          THEN Response(INTERNAL_SERVER_ERROR,
                        Some(<<"Audio conversion failed", wav_file.error>>), None, None)
          ELSE
            LET samples == read_wav_samples(wav_file.value, req.readable)
            IN IF ~samples.ok
               THEN Response(INTERNAL_SERVER_ERROR,
                             Some(<<"Failed to read audio", samples.error>>), None, None)
               ELSE
                 LET result == transcribe(ctx, samples.value, req.engine_ok)
                 IN IF ~result.ok
                    THEN Response(INTERNAL_SERVER_ERROR,
                                  Some(<<"Transcription failed", result.error>>), None, None)
                    ELSE Response(OK, None, Some(result.value.text),
                                  Some(result.value.segments))

\* The multipart bodies: no field; no field and a failing next_field(); a
\* field of another name; a nameless field and then the file; a file whose
\* bytes cannot be read; two fields named "file".
Field(name, bytes) == [name |-> name, bytes |-> bytes]

Multiparts ==
  {[fields |-> <<>>, broken |-> FALSE],
   [fields |-> <<>>, broken |-> TRUE],
   [fields |-> <<Field("audio", Some(PcmTiny))>>, broken |-> FALSE],
   [fields |-> <<Field("", Some(PcmOdd)), Field("file", Some(PcmTiny))>>, broken |-> FALSE],
   [fields |-> <<Field("file", None)>>, broken |-> FALSE],
   [fields |-> <<Field("file", Some(PcmEmpty)), Field("file", Some(PcmTiny))>>, broken |-> TRUE]}

\* The WAV files ffmpeg writes: a header of 44 bytes and two samples; the same
\* with no sample; without the marker; a file of 40 bytes; three bytes of PCM.
WavFiles ==
  {[data_start |-> WAV_MIN_LEN, marker |-> TRUE, pcm |-> PcmTiny],
   [data_start |-> WAV_MIN_LEN, marker |-> TRUE, pcm |-> PcmEmpty],
   [data_start |-> WAV_MIN_LEN, marker |-> FALSE, pcm |-> PcmTiny],
   [data_start |-> WAV_MIN_LEN - DATA_MARKER_LEN, marker |-> TRUE, pcm |-> PcmTiny],
   [data_start |-> WAV_MIN_LEN, marker |-> TRUE, pcm |-> PcmOdd]}

Ffmpegs ==
  {[found |-> FALSE, success |-> FALSE, output |-> w] : w \in {CHOOSE w \in WavFiles : TRUE}}
    \cup {[found |-> TRUE, success |-> FALSE, output |-> w] : w \in {CHOOSE w \in WavFiles : TRUE}}
    \cup {[found |-> TRUE, success |-> TRUE, output |-> w] : w \in WavFiles}

HttpRequests ==
  {[multipart |-> m, ffmpeg |-> f, readable |-> r, engine_ok |-> e] :
     m \in Multiparts, f \in Ffmpegs, r \in BOOLEAN, e \in BOOLEAN}

\* ----------------------------------------------------------------- state

VARIABLES
  pc,           \* handle_socket: "upgrade", "recv" (awaiting receiver.next()),
                \* "await" (awaiting spawn_blocking), "closed" (loop left)
  session,      \* the StreamingSession behind the Arc<Mutex<..>>
  calls,        \* transcription calls started and not completed, oldest first
  now,          \* Instant::now(), in ms
  WHISPER_CTX,  \* the OnceLock<WhisperContext>: None or Some(ctx)
  nframes,      \* inbound frames taken from the receiver so far
  frame,        \* the frame taken last
  sent,         \* the messages given to sender.send since the last frame was
                \* taken (before the first frame: on upgrade), in order
  last_call,    \* the transcription call started last, if any: kind, the
                \* time it was done (once it is), its outcome, whether the
                \* frame taken last started it (cur), and whether reset() has
                \* run since it started
  peer_closed,  \* the client has closed the connection while a call was
                \* outstanding
  lock_held,    \* the connection's task holds the MutexGuard of the session
  http,         \* the one-shot request handled last and its response, if any
  accepted,     \* under SpecHistory: the samples add_samples was given since
                \* reset() ran last
  committed     \* under SpecHistory: the snapshots of the commit calls started
                \* since reset() ran last, one after the other

vars == <<pc, session, calls, now, WHISPER_CTX, nframes, frame, sent, last_call, peer_closed, lock_held, http,
          accepted, committed>>

Init ==
  /\ pc = "upgrade"
  /\ session = StreamingSession_new
  /\ calls = <<>>
  /\ now = 0
  /\ WHISPER_CTX = None
  /\ nframes = 0
  /\ frame = [kind |-> "none"]
  /\ sent = <<>>
  /\ last_call = <<>>
  /\ peer_closed = FALSE
  /\ lock_held = FALSE
  /\ http = None
  /\ accepted = <<>>
  /\ committed = <<>>

\* A loop that takes the next frame while a call is still awaited.
LoopHead_Concurrent == pc \in {"recv", "await"}

\* The loop is at `receiver.next().await`.
LoopHead == pc = "recv"

\* transcribe::transcribe fails when the context is not set; with a context
\* the engine may still fail, and the worker task may fail.
TranscribeOutcomes == IF WHISPER_CTX = None THEN {"err"} ELSE {"ok", "err", "join"}

\* last_call once another frame is taken.
NotCur(q) == [j \in 1..Len(q) |-> [q[j] EXCEPT !.cur = FALSE]]

\* last_call after n calls of reset().
AfterReset(q, n) == IF n = 0 THEN q ELSE [j \in 1..Len(q) |-> [q[j] EXCEPT !.reset_since = TRUE]]

\* sender.send(msg) after the messages `before`; when the send fails and brk,
\* the loop breaks.
Send(before, response, brk, next_pc) ==
  IF response = None
  THEN /\ sent' = before
       /\ pc' = next_pc
  ELSE /\ sent' = Append(before, Unwrap(response))
       /\ \E delivered \in BOOLEAN : pc' = IF delivered \/ ~brk THEN next_pc ELSE "closed"

\* A handler that still holds the guard when it awaits spawn_blocking.
GuardAtAwait_Held(path, kind) == TRUE

\* Whether the handler holds the MutexGuard when it awaits spawn_blocking:
\* every branch that starts a call has drop(session_guard) before it.
GuardAtAwait(path, kind) ==
  CASE path = "text" /\ kind = "commit"    -> FALSE
    [] path = "text" /\ kind = "partial"   -> FALSE
    [] path = "text" /\ kind = "end"       -> FALSE
    [] path = "binary" /\ kind = "commit"  -> FALSE
    [] path = "binary" /\ kind = "partial" -> FALSE

\* The first part of a handler has run on the frame just taken: its session,
\* its call, its response; nresets calls of reset() were made.  A handler
\* that starts no call lets go of the guard before it returns.
Started(r, path, nresets) ==
  /\ session' = r.session
  /\ IF r.call.kind # "none"
     THEN /\ calls' = Append(calls, [kind |-> r.call.kind, audio_data |-> r.call.audio_data,
                                     path |-> path, frame |-> nframes'])
          /\ last_call' = Some([cur |-> TRUE, kind |-> r.call.kind, done |-> None,
                                outcome |-> "", reset_since |-> FALSE])
          /\ lock_held' = GuardAtAwait(path, r.call.kind)
          /\ pc' = "await"
          /\ sent' = <<>>
     ELSE /\ calls' = calls
          /\ last_call' = AfterReset(NotCur(last_call), nresets)
          /\ lock_held' = FALSE
          /\ Send(<<>>, r.response, TRUE, "recv")

\* The handler's first part has run (calls' is set): add_samples was given
\* samples, a commit call, if one has started, has taken its snapshot, and
\* reset() has run nresets times.
Recorded(samples, nresets) ==
  IF nresets > 0
  THEN /\ accepted' = <<>>
       /\ committed' = <<>>
  ELSE /\ accepted' = VecExtend(accepted, samples)
       /\ committed' = IF Len(calls') > Len(calls) /\ calls'[Len(calls')].kind = "commit"
                       THEN VecExtend(committed, calls'[Len(calls')].audio_data)
                       ELSE committed

\* An upgrade that enters the loop without sending Ready.
Upgrade_Silent ==
  /\ pc = "upgrade"
  /\ pc' = "recv"
  /\ UNCHANGED <<session, calls, now, WHISPER_CTX, nframes, frame, sent, last_call, peer_closed, lock_held, http, accepted, committed>>

\* handle_socket: the Ready sent on upgrade.
Upgrade ==
  /\ pc = "upgrade"
  /\ Send(sent, Some(Ready("Streaming transcription ready")), FALSE, "recv")
  /\ UNCHANGED <<session, calls, now, WHISPER_CTX, nframes, frame, last_call, peer_closed, lock_held, http, accepted, committed>>

\* handle_socket, Ok(Message::Text(text)): the frame is taken and handled.
TextFrame(text) ==
  /\ LoopHead
  /\ ~peer_closed
  /\ nframes < MaxFrames
  /\ nframes' = nframes + 1
  /\ frame' = [kind |-> "text", text |-> text]
  /\ LET msg == ParseClientMessage(text)
     IN IF ~msg.ok
        THEN /\ Send(<<>>, Some(Error("Invalid message format")), FALSE, "recv")
             /\ last_call' = NotCur(last_call)
             /\ UNCHANGED <<session, calls, lock_held>>
        ELSE CASE msg.tag = "audio" ->
                    Started(TextAudioStart(session, msg, now), "text", 0)
               [] msg.tag = "end" ->
                    Started(TextEndStart(session), "text", 1)
               [] OTHER ->
                    Started(TextReset(session), "text", 1)
  /\ UNCHANGED <<now, WHISPER_CTX, peer_closed, http>>

\* handle_socket, Ok(Message::Text(text)).
RecvText(text) ==
  /\ TextFrame(text)
  /\ UNCHANGED <<accepted, committed>>

\* handle_socket, Ok(Message::Text(text)), and the history of the samples.
RecvTextRecorded(text) ==
  /\ TextFrame(text)
  /\ \E msg \in {ParseClientMessage(text)} :
       IF ~msg.ok THEN Recorded(<<>>, 0)
       ELSE IF msg.tag = "audio"
       THEN \E dec \in {decode_audio(msg.data)} :
              Recorded(IF RateAccepted(msg.sample_rate) /\ dec.ok THEN dec.samples ELSE <<>>, 0)
       ELSE Recorded(<<>>, 1)

\* handle_socket, Ok(Message::Binary(data)): the frame is taken and handled.
BinaryFrame(data) ==
  /\ LoopHead
  /\ ~peer_closed
  /\ nframes < MaxFrames
  /\ nframes' = nframes + 1
  /\ frame' = [kind |-> "binary", data |-> data]
  /\ Started(BinaryStart(session, data, now), "binary", 0)
  /\ UNCHANGED <<now, WHISPER_CTX, peer_closed, http>>

\* handle_socket, Ok(Message::Binary(data)).
RecvBinary(data) ==
  /\ BinaryFrame(data)
  /\ UNCHANGED <<accepted, committed>>

\* handle_socket, Ok(Message::Binary(data)), and the history of the samples.
RecvBinaryRecorded(data) ==
  /\ BinaryFrame(data)
  /\ Recorded(IF BytesLen(data) % 2 = 0 THEN PcmToSamples(data) ELSE <<>>, 0)

\* A loop that takes note of the frame and goes on.
RecvClose_GoesOn(kind) ==
  /\ LoopHead
  /\ nframes < MaxFrames
  /\ nframes' = nframes + 1
  /\ frame' = [kind |-> kind]
  /\ sent' = <<>>
  /\ last_call' = NotCur(last_call)
  /\ UNCHANGED <<pc, session, calls, now, WHISPER_CTX, peer_closed, lock_held, http, accepted, committed>>

\* handle_socket, Ok(Message::Close(_)), Err(e), and the stream's end.
RecvClose(kind) ==
  /\ LoopHead
  /\ nframes < MaxFrames
  /\ nframes' = nframes + 1
  /\ frame' = [kind |-> kind]
  /\ sent' = <<>>
  /\ last_call' = NotCur(last_call)
  /\ pc' = "closed"
  /\ UNCHANGED <<session, calls, now, WHISPER_CTX, peer_closed, lock_held, http, accepted, committed>>

\* handle_socket, `_ => {}`: Ping and Pong frames.
RecvOther ==
  /\ LoopHead
  /\ ~peer_closed
  /\ nframes < MaxFrames
  /\ nframes' = nframes + 1
  /\ frame' = [kind |-> "ping"]
  /\ sent' = <<>>
  /\ last_call' = NotCur(last_call)
  /\ UNCHANGED <<pc, session, calls, now, WHISPER_CTX, peer_closed, lock_held, http, accepted, committed>>

\* A second part that starts the call again when it has failed.
Complete_Retries(outcome) ==
  /\ pc = "await"
  /\ calls # <<>>
  /\ ~lock_held
  /\ outcome \in TranscribeOutcomes
  /\ LET call == Head(calls)
         r == IF call.path = "text"
              THEN TextFinish(session, call, outcome, now)
              ELSE BinaryFinish(session, call, outcome, now)
         done == [j \in 1..Len(last_call) |->
                    [last_call[j] EXCEPT !.done = Some(now), !.outcome = outcome]]
     IN IF outcome = "ok"
        THEN /\ session' = r.session
             /\ calls' = Tail(calls)
             /\ lock_held' = FALSE
             /\ last_call' = AfterReset(done, IF call.kind = "end" THEN 1 ELSE 0)
             /\ Send(sent, r.response, TRUE, "recv")
        ELSE /\ last_call' = done
             /\ UNCHANGED <<pc, session, calls, lock_held, sent>>
  /\ UNCHANGED <<now, WHISPER_CTX, nframes, frame, peer_closed, http, accepted, committed>>

\* The awaited spawn_blocking returns with outcome; the handler's second part.
Complete(outcome) ==
  /\ pc = "await"
  /\ calls # <<>>
  /\ ~lock_held                    \* session.lock().await
  /\ outcome \in TranscribeOutcomes
  /\ LET call == Head(calls)
         r == IF call.path = "text"
              THEN TextFinish(session, call, outcome, now)
              ELSE BinaryFinish(session, call, outcome, now)
         done == [j \in 1..Len(last_call) |->
                    [last_call[j] EXCEPT !.done = Some(now), !.outcome = outcome]]
     IN /\ session' = r.session
        /\ calls' = Tail(calls)
        /\ lock_held' = FALSE
        /\ last_call' = AfterReset(done, IF call.kind = "end" THEN 1 ELSE 0)
        /\ Send(sent, r.response, TRUE, "recv")
  /\ UNCHANGED <<now, WHISPER_CTX, nframes, frame, peer_closed, http, accepted, committed>>

\* The client closes the connection while the handler awaits spawn_blocking:
\* nothing in the task polls the socket then.  Afterwards the receiver yields
\* no frame of the client but Close, an error or the stream's end.
ClientCloses ==
  /\ pc = "await"
  /\ ~peer_closed
  /\ peer_closed' = TRUE
  /\ UNCHANGED <<pc, session, calls, now, WHISPER_CTX, nframes, frame, sent, last_call, lock_held, http, accepted, committed>>

\* Time passes.
Tick(d) ==
  /\ pc \in {"recv", "await"}
  /\ now + d <= MaxTime
  /\ now' = now + d
  /\ UNCHANGED <<pc, session, calls, WHISPER_CTX, nframes, frame, sent, last_call, peer_closed, lock_held, http, accepted, committed>>

\* DEFAULT_MODEL_PATH
DEFAULT_MODEL_PATH == "./models/ggml-small.en.bin"

\* The model_path arguments of init_model: none, and another file.
ModelPathArgs == {None, Some("./models/ggml-base.en.bin")}

\* An init_model that puts its context in place of the one that is set.
init_model_Replaces(ctx, model_path, path_exists, loads) ==
  LET path == IF model_path = None THEN DEFAULT_MODEL_PATH ELSE Unwrap(model_path)
  IN IF path_exists /\ loads
     THEN [ctx |-> Some(path), result |-> "ok"]
     ELSE [ctx |-> ctx, result |-> "Failed to load Whisper model"]

\* transcribe::init_model, from the context ctx of WHISPER_CTX: the context
\* afterwards and the result, "ok" or the error.  A context is Some(path),
\* path being the file it was loaded from.
init_model(ctx, model_path, path_exists, loads) ==
  LET path == IF model_path = None THEN DEFAULT_MODEL_PATH ELSE Unwrap(model_path)
  IN IF ~path_exists
     THEN [ctx |-> ctx, result |-> "Whisper model not found"]
     ELSE IF ~loads
     THEN [ctx |-> ctx, result |-> "Failed to load Whisper model"]
     ELSE IF ctx # None
     THEN [ctx |-> ctx, result |-> "Whisper context already initialized"]
     ELSE [ctx |-> Some(path), result |-> "ok"]

\* transcribe::is_model_loaded
is_model_loaded == WHISPER_CTX # None

\* main.rs, health: the body of the response.
health == [ok |-> TRUE, model_loaded |-> is_model_loaded]

\* A call of transcribe::init_model.
InitModel(model_path, path_exists, loads) ==
  /\ WHISPER_CTX' = init_model(WHISPER_CTX, model_path, path_exists, loads).ctx
  /\ UNCHANGED <<pc, session, calls, now, nframes, frame, sent, last_call, peer_closed, lock_held, http, accepted, committed>>

\* POST /transcribe is handled: transcribe_audio on the request.
HttpTranscribe(req) ==
  /\ http' = Some([request |-> req, response |-> transcribe_audio(WHISPER_CTX, req)])
  /\ UNCHANGED <<pc, session, calls, now, WHISPER_CTX, nframes, frame, sent, last_call,
                 peer_closed, lock_held, accepted, committed>>

\* The process is started without VOICEMARK_MODEL_PATH: init_model(None).
Next ==
  \/ Upgrade
  \/ \E text \in TextFrames : RecvText(text)
  \/ \E data \in PcmPayloads : RecvBinary(data)
  \/ \E kind \in {"close", "error", "end_of_stream"} : RecvClose(kind)
  \/ RecvOther
  \/ \E outcome \in {"ok", "err", "join"} : Complete(outcome)
  \/ ClientCloses
  \/ \E d \in TickSteps : Tick(d)
  \/ \E path_exists, loads \in BOOLEAN : InitModel(None, path_exists, loads)

Spec == Init /\ [][Next]_vars

\* The engine handle under init_model with either model_path, and a client
\* that streams binary frames.
NextEngine ==
  \/ Upgrade
  \/ \E data \in PcmPayloads : RecvBinary(data)
  \/ \E outcome \in {"ok", "err", "join"} : Complete(outcome)
  \/ \E d \in TickSteps : Tick(d)
  \/ \E model_path \in ModelPathArgs : \E path_exists, loads \in BOOLEAN :
       InitModel(model_path, path_exists, loads)

SpecEngine == Init /\ [][NextEngine]_vars

\* The HTTP service: init_model and the one-shot handler.
NextHttp ==
  \/ \E req \in HttpRequests : HttpTranscribe(req)
  \/ \E model_path \in ModelPathArgs : \E path_exists, loads \in BOOLEAN :
       InitModel(model_path, path_exists, loads)

SpecHttp == Init /\ [][NextHttp]_vars

\* The streaming connection of a client that sends text and binary frames
\* until it goes, with the history of the samples kept; time passes in steps
\* of MIN_TRANSCRIBE_INTERVAL_MS, so a Partial is throttled (no time has
\* passed) or due.  The second reset() of End (after its call) finds the
\* history empty.
NextHistory ==
  \/ Upgrade
  \/ \E text \in TextFrames : RecvTextRecorded(text)
  \/ \E data \in PcmPayloads : RecvBinaryRecorded(data)
  \/ \E outcome \in {"ok", "err", "join"} : Complete(outcome)
  \/ Tick(MIN_TRANSCRIBE_INTERVAL_MS)
  \/ \E path_exists, loads \in BOOLEAN : InitModel(None, path_exists, loads)

SpecHistory == Init /\ [][NextHistory]_vars

\* ----------------------------------------------------------------- claims

\* The frame taken last, when it is a text frame that parses.
FrameMsg(f) == ParseClientMessage(f.text)

IsTextAudio(f) == f.kind = "text" /\ FrameMsg(f).ok /\ FrameMsg(f).tag = "audio"

IsTextTag(f, tag) == f.kind = "text" /\ FrameMsg(f).ok /\ FrameMsg(f).tag = tag

\* This step takes a frame from the receiver.
FrameTaken == nframes' = nframes + 1

\* This step starts a transcription call; this step completes one.
CallStarted == Len(calls') = Len(calls) + 1

CallCompleted == Len(calls') = Len(calls) - 1

\* C1: at most one transcription call of the session is outstanding at any
\* time.
C1_AtMostOneCall == Len(calls) <= 1

\* A call is outstanding, started by the third or a later frame, while time
\* has passed: the loop is suspended on it and takes no frame.
C1_Witness ==
  /\ pc = "await"
  /\ Len(calls) = 1
  /\ session.transcription_pending
  /\ nframes >= 3
  /\ now > 0

C3_WrongRateRejected ==
  [][(FrameTaken /\ IsTextAudio(frame') /\ FrameMsg(frame').sample_rate # 16000)
       => /\ session' = session
          /\ calls' = calls
          /\ pc' # "await"
          /\ sent' = <<Error("Expected sample rate")>>]_vars

\* A wrong-rate Audio was answered, on a session that holds audio and has
\* transcribed before.
C3_Witness ==
  /\ IsTextAudio(frame)
  /\ FrameMsg(frame).sample_rate # 16000
  /\ sent = <<Error("Expected sample rate")>>
  /\ session.current_chunk # <<>>
  /\ session.last_transcribe_time # None

\* C4: once Reset is handled the session is that of StreamingSession::new, no
\* call was started for it, and it is answered with exactly one Ready.
C4_ResetIsFresh ==
  IsTextTag(frame, "reset") =>
    /\ session = StreamingSession_new
    /\ calls = <<>>
    /\ pc # "await"
    /\ last_call # None => ~Unwrap(last_call).cur
    /\ sent = <<Ready("Session reset")>>

\* Reset was handled after a Partial call had completed on the session.
C4_Witness ==
  /\ IsTextTag(frame, "reset")
  /\ last_call # None
  /\ Unwrap(last_call).kind = "partial"
  /\ Unwrap(last_call).done # None
  /\ sent = <<Ready("Session reset")>>

\* C5: End on an empty buffer is answered with exactly one Final of empty
\* text and starts no call.
C5_EndOnEmpty ==
  [][(FrameTaken /\ IsTextTag(frame', "end") /\ session.current_chunk = <<>>)
       => /\ sent' = <<Final(<<>>)>>
          /\ calls' = calls
          /\ pc' # "await"
          /\ last_call' # None => ~Unwrap(last_call').cur]_vars

\* End was answered with the empty Final after an auto-commit had emptied the
\* buffer.
C5_Witness ==
  /\ IsTextTag(frame, "end")
  /\ sent = <<Final(<<>>)>>
  /\ last_call # None
  /\ Unwrap(last_call).kind = "commit"

\* C6: every call gets a snapshot that is not empty, and a Partial or Final
\* carries the text of a call on a snapshot that is not empty, but for the
\* Final of empty text that answers End when no call was started.
C6_NoEmptySnapshot ==
  /\ \A i \in 1..Len(calls) : calls[i].audio_data # <<>>
  /\ \A i \in 1..Len(sent) :
       sent[i].type \in {"partial", "final"} =>
         \/ /\ Len(sent[i].text) = 2
            /\ sent[i].text[2] # <<>>
         \/ /\ sent[i] = Final(<<>>)
            /\ IsTextTag(frame, "end")
            /\ last_call # None => ~Unwrap(last_call).cur

\* A Partial was sent for a buffer of SAMPLE_RATE / 2 samples exactly.
C6_Witness ==
  /\ Len(sent) = 1
  /\ sent[1].type = "partial"
  /\ VecLen(sent[1].text[2]) = SAMPLE_RATE \div 2
\* C7 as claimed: a call starts at least MIN_TRANSCRIBE_INTERVAL_MS after the
\* call before it was done, whatever frame starts it.
C7_EveryCallSpaced ==
  [][(CallStarted /\ last_call # None)
       => /\ Unwrap(last_call).done # None
          /\ now - Unwrap(Unwrap(last_call).done) >= MIN_TRANSCRIBE_INTERVAL_MS]_vars

\* C7, amended: a Partial call starts at least MIN_TRANSCRIBE_INTERVAL_MS
\* after the call before it was done, unless reset() has run since that call
\* started (Reset, or End); commit and End calls are not spaced.
C7_PartialSpaced ==
  [][(CallStarted /\ calls'[Len(calls')].kind = "partial" /\ last_call # None
        /\ ~Unwrap(last_call).reset_since)
       => /\ Unwrap(last_call).done # None
          /\ now - Unwrap(Unwrap(last_call).done) >= MIN_TRANSCRIBE_INTERVAL_MS]_vars

\* A Partial call is outstanding on a session that has transcribed before and
\* was not reset since.
C7_Witness ==
  /\ Len(calls) = 1
  /\ calls[1].kind = "partial"
  /\ session.last_transcribe_time # None
  /\ last_call # None
  /\ Unwrap(last_call).cur

\* C8 as claimed: a call that fails (transcribe fails, or the worker task
\* fails) is answered with exactly one Error, on the text path and on the
\* binary path.
C8_FailureReported ==
  [][(CallCompleted /\ Unwrap(last_call').outcome \in {"err", "join"})
       => /\ Len(sent') = Len(sent) + 1
          /\ sent'[Len(sent')].type = "error"]_vars

\* What the text path does with Audio{data: base64(B), sample_rate: 16000} and
\* what the binary path does with B, from session s at time t: the session,
\* the call and the response of the first part, and for each outcome of the
\* call the session and the response of the second part.
TextEffect(s, B, t) ==
  LET r == TextAudioStart(s, [data |-> Base64Encode(B), sample_rate |-> 16000], t)
  IN [start |-> r,
      finish |-> [o \in {"ok", "err", "join"} |->
                    IF r.call.kind = "none" THEN None
                    ELSE Some(TextFinish(r.session, r.call, o, t))]]

BinaryEffect(s, B, t) ==
  LET r == BinaryStart(s, B, t)
  IN [start |-> r,
      finish |-> [o \in {"ok", "err", "join"} |->
                    IF r.call.kind = "none" THEN None
                    ELSE Some(BinaryFinish(r.session, r.call, o, t))]]

\* C9 as claimed: wherever the loop awaits a frame, a binary frame B and the
\* text Audio message of base64(B) at 16000 Hz have the same effect.
C9_BinaryAsText ==
  LoopHead => \A B \in PcmPayloads :
                BinaryEffect(session, B, now) = TextEffect(session, B, now)

\* The payload of the frame taken last is badly framed: a text Audio at the
\* right rate whose data is not base64 or decodes to an odd number of bytes,
\* or a binary frame of an odd number of bytes.
BadFraming(f) ==
  \/ /\ IsTextAudio(f)
     /\ FrameMsg(f).sample_rate = 16000
     /\ \/ ~Base64Decode(FrameMsg(f).data).ok
        \/ BytesLen(Base64Decode(FrameMsg(f).data).bytes) % 2 # 0
  \/ /\ f.kind = "binary"
     /\ BytesLen(f.data) % 2 # 0

\* C10 as claimed: a badly framed payload, text or binary, is answered with an
\* Error, leaves the session as it is and starts no call.
C10_BadFramingReported ==
  [][(FrameTaken /\ BadFraming(frame'))
       => /\ session' = session
          /\ calls' = calls
          /\ Len(sent') = 1
          /\ sent'[1].type = "error"]_vars

\* The frame is a text frame that is no ClientMessage: its type tag is none of
\* "audio", "end", "reset", or it is an Audio without data.
Malformed(f) ==
  /\ f.kind = "text"
  /\ \/ f.text.tag \notin {"audio", "end", "reset"}
     \/ f.text.tag = "audio" /\ f.text.data = None

C12_FinalLeavesFresh ==
  \A i \in 1..Len(sent) :
    sent[i].type = "final" => session = StreamingSession_new

\* This step gives a message to sender.send without taking a frame.
SentLater == ~FrameTaken /\ Len(sent') = Len(sent) + 1

\* C13: a message is sent either in the step that takes the frame it answers
\* or, while no later frame has been taken, when the call that frame started
\* completes; so the messages go out in the order of the frames they answer.
C13_InOrder ==
  [][/\ (SentLater /\ pc # "upgrade")
          => /\ CallCompleted
             /\ Head(calls).frame = nframes
     /\ \A i \in 1..Len(calls') : calls'[i].frame = nframes']_vars

\* The Final of an auto-commit was sent for the third or a later frame, the
\* frame taken last.
C13_Witness ==
  /\ nframes >= 3
  /\ frame.kind \in {"text", "binary"}
  /\ last_call # None
  /\ Unwrap(last_call).cur
  /\ Unwrap(last_call).kind = "commit"
  /\ Len(sent) = 1
  /\ sent[1].type = "final"

\* The frame is a text Audio that is rejected: its rate is not SAMPLE_RATE or
\* its data do not decode.
AudioRejected(f) ==
  /\ IsTextAudio(f)
  /\ \/ FrameMsg(f).sample_rate # SAMPLE_RATE
     \/ ~decode_audio(FrameMsg(f).data).ok

\* The frame taken last started a call.
FrameStartedCall == last_call # None /\ Unwrap(last_call).cur

\* C14: a frame is answered with at most one message; End and Reset, once
\* handled, with exactly one; a rejected Audio with exactly one Error; an Audio
\* that is buffered and starts no call with none.
C14_OnePerFrame ==
  /\ frame.kind # "none" => Len(sent) <= 1
  /\ ((IsTextTag(frame, "end") \/ IsTextTag(frame, "reset")) /\ pc # "await")
       => Len(sent) = 1
  /\ AudioRejected(frame) => (Len(sent) = 1 /\ sent[1].type = "error")
  /\ (IsTextAudio(frame) /\ ~AudioRejected(frame) /\ ~FrameStartedCall)
       => sent = <<>>

\* End started a call that failed, and was answered with one Error.
C14_Witness ==
  /\ IsTextTag(frame, "end")
  /\ FrameStartedCall
  /\ Unwrap(last_call).outcome = "err"
  /\ Len(sent) = 1
  /\ sent[1].type = "error"

\* The samples an accepted audio frame carries.
FrameSamples(f) ==
  IF f.kind = "binary" THEN PcmToSamples(f.data)
  ELSE decode_audio(FrameMsg(f).data).samples

\* This step gives a message to sender.send; the message.
MessageSent == (FrameTaken /\ sent' # <<>>) \/ SentLater

LastSent == sent'[Len(sent')]

\* This step sends a Final that is the text of the call, completed in this
\* step, that the frame taken last started as a commit or for End.
FinalOfOwnCall ==
  /\ CallCompleted
  /\ Head(calls).kind \in {"commit", "end"}
  /\ Head(calls).frame = nframes
  /\ LastSent = Final(ResultText(Head(calls).audio_data))

\* A commit call and an End call get the whole buffer, which is emptied.
SnapshotIsWholeBuffer ==
  CallStarted =>
    LET call == calls'[Len(calls')]
    IN /\ call.kind = "commit" =>
            /\ call.audio_data = VecExtend(session.current_chunk, FrameSamples(frame'))
            /\ session'.current_chunk = <<>>
       /\ call.kind = "end" =>
            /\ call.audio_data = session.current_chunk
            /\ session'.current_chunk = <<>>

\* C15 as claimed: every Final carries the text of a call started by the
\* frame it answers on the whole buffer, which is committed.
C15_EveryFinalTranscribed ==
  [][/\ (MessageSent /\ LastSent.type = "final") => FinalOfOwnCall
     /\ SnapshotIsWholeBuffer]_vars

\* C15, amended: every Final carries the text of a call started by the frame
\* it answers on the whole buffer, which is committed, but for the Final of
\* empty text that answers End on an empty buffer, for which no call is made.
C15_FinalTranscribedOrEmpty ==
  [][/\ (MessageSent /\ LastSent.type = "final")
          => \/ FinalOfOwnCall
             \/ /\ FrameTaken
                /\ IsTextTag(frame', "end")
                /\ session.current_chunk = <<>>
                /\ LastSent = Final(<<>>)
     /\ SnapshotIsWholeBuffer]_vars

\* End was answered with the Final of the whole buffer of 8000 samples, which
\* two audio frames had filled.
C15_Witness ==
  /\ IsTextTag(frame, "end")
  /\ FrameStartedCall
  /\ Len(sent) = 1
  /\ sent[1].type = "final"
  /\ Len(sent[1].text) = 2
  /\ VecLen(sent[1].text[2]) = SAMPLE_RATE \div 2
  /\ Len(sent[1].text[2]) >= 2

\* C16: until the upgrade is done nothing is sent and no frame is taken; the
\* upgrade sends Ready and nothing else; and when the first frame is taken,
\* Ready is all that has been sent.
C16_ReadyFirst ==
  [][/\ pc = "upgrade" =>
          /\ sent = <<>>
          /\ nframes = 0
          /\ ~FrameTaken
          /\ pc' # "upgrade" => sent' = <<Ready("Streaming transcription ready")>>
     /\ (FrameTaken /\ nframes = 0) =>
          /\ pc = "recv"
          /\ sent = <<Ready("Streaming transcription ready")>>]_vars

\* Ready was sent, time has passed, and the loop awaits the first frame.
C16_Witness ==
  /\ pc = "recv"
  /\ nframes = 0
  /\ now > 0
  /\ sent = <<Ready("Streaming transcription ready")>>

\* The frame taken last is a Close frame or a receive error.
Closing == frame.kind \in {"close", "error"}

\* C17: once a Close frame or a receive error is taken the loop is left, and
\* from then on no frame is taken, no call is started or outstanding, nothing
\* is sent, and the session stays as it is.
C17_CloseTerminates ==
  [][/\ (FrameTaken /\ frame'.kind \in {"close", "error"})
          => (pc' = "closed" /\ sent' = <<>> /\ calls' = <<>>)
     /\ Closing
          => /\ pc = "closed"
             /\ UNCHANGED <<pc, nframes, frame, calls, sent, session, last_call>>]_vars

\* The loop was left on a Close frame or a receive error while the engine was
\* loaded, the buffer held audio and more frames could have been taken.
C17_Witness ==
  /\ Closing
  /\ pc = "closed"
  /\ WHISPER_CTX # None
  /\ VecLen(session.current_chunk) >= SAMPLE_RATE \div 2
  /\ nframes < MaxFrames - 1

\* C18 as claimed: when the client has closed the connection while a call was
\* outstanding, the loop is left and the call's result is dropped: the step
\* that completes the call gives no message to sender.send.
C18_ResultDiscarded ==
  [][(peer_closed /\ CallCompleted) => (sent' = sent /\ pc' = "closed")]_vars

InitSucceeds ==
  \E model_path \in ModelPathArgs : \E path_exists, loads \in BOOLEAN :
    /\ InitModel(model_path, path_exists, loads)
    /\ init_model(WHISPER_CTX, model_path, path_exists, loads).result = "ok"

\* C20: the context, once set, stays the one that was set first; a call that
\* completes while none is set fails and sets none; init_model on a set
\* context returns an error and keeps it, and returns Ok only by setting the
\* context; is_model_loaded, which health reports, is false at first, turns
\* true in the steps in which init_model returns Ok and in no other, and
\* never turns false.
C20_EngineSetOnce ==
  [][/\ WHISPER_CTX # None => WHISPER_CTX' = WHISPER_CTX
     /\ (CallCompleted /\ WHISPER_CTX = None)
          => (Unwrap(last_call').outcome = "err" /\ WHISPER_CTX' = None)
     /\ \A model_path \in ModelPathArgs : \A path_exists, loads \in BOOLEAN :
          LET r == init_model(WHISPER_CTX, model_path, path_exists, loads)
          IN /\ WHISPER_CTX # None => (r.result # "ok" /\ r.ctx = WHISPER_CTX)
             /\ r.result = "ok" <=> (WHISPER_CTX = None /\ r.ctx # None)
             /\ r.result # "ok" => r.ctx = WHISPER_CTX
     /\ InitSucceeds <=> (~is_model_loaded /\ is_model_loaded')
     /\ is_model_loaded => is_model_loaded'
     /\ health.model_loaded = is_model_loaded
     /\ health'.model_loaded = is_model_loaded']_vars

\* The context loaded from the default path is in place, calls have been made
\* with it, and a later init_model with the other path would return the error.
C20_Witness ==
  /\ WHISPER_CTX = Some(DEFAULT_MODEL_PATH)
  /\ last_call # None
  /\ Unwrap(last_call).outcome = "ok"
  /\ init_model(WHISPER_CTX, Some("./models/ggml-base.en.bin"), TRUE, TRUE).result
       = "Whisper context already initialized"
  /\ health.model_loaded

\* The multipart body has a field named "file".
HasFileField(multipart) ==
  \E i \in 1..Len(multipart.fields) : multipart.fields[i].name = "file"

\* The response is an error body with this prefix.
IsError(resp, status, prefix) ==
  /\ resp.status = status
  /\ resp.error # None
  /\ Unwrap(resp.error)[1] = prefix
  /\ resp.text = None
  /\ resp.segments = None

\* C21: the one-shot handler answers 400 with an error body when the body has
\* no field named "file" (and whenever the extraction fails), 500 with an
\* error body when, in this order, the conversion, the reading of the samples
\* or the transcription fails, the first failure deciding the body, and the
\* transcription failing whenever no context is set, and 200 with text and
\* segments otherwise.
C21_OneShotStatus ==
  [][http' # http =>
       LET req  == Unwrap(http').request
           resp == Unwrap(http').response
           e == extract_audio_file(req.multipart)
           c == convert_to_wav(e.value, req.ffmpeg)
           r == read_wav_samples(c.value, req.readable)
           t == transcribe(WHISPER_CTX, r.value, req.engine_ok)
       IN /\ ~HasFileField(req.multipart) => ~e.ok
          /\ ~e.ok => IsError(resp, 400, "")
          /\ (e.ok /\ ~c.ok) => IsError(resp, 500, "Audio conversion failed")
          /\ (e.ok /\ c.ok /\ ~r.ok) => IsError(resp, 500, "Failed to read audio")
          /\ (e.ok /\ c.ok /\ r.ok) =>
               /\ WHISPER_CTX = None => ~t.ok
               /\ ~t.ok => IsError(resp, 500, "Transcription failed")
               /\ t.ok => /\ resp.status = 200
                          /\ resp.error = None
                          /\ resp.text = Some(ResultText(r.value))
                          /\ resp.segments # None]_vars

\* A request whose file converts and reads was answered 500 for the
\* transcription, no context being set.
C21_Witness ==
  /\ http # None
  /\ WHISPER_CTX = None
  /\ HasFileField(Unwrap(http).request.multipart)
  /\ Unwrap(http).request.engine_ok
  /\ IsError(Unwrap(http).response, 500, "Transcription failed")

\* The positions (1-based) at which the runs of a run-length vector end.
Ends(v) == [j \in 1..Len(v) |-> VecLen(SubSeq(v, 1, j))]

\* The k-th sample of a run-length vector whose runs end at e.
VecAtE(v, e, k) ==
  v[CHOOSE j \in 1..Len(v) : (IF j = 1 THEN 0 ELSE e[j - 1]) < k /\ k <= e[j]][1]

\* The k-th sample (1-based) of a run-length vector.
VecAt(v, k) == CHOOSE r \in {VecAtE(v, e, k) : e \in {Ends(v)}} : TRUE

\* The little-endian signed 16-bit integer of two bytes.
Signed16(lo, hi) == IF hi >= 128 THEN lo + 256 * hi - 65536 ELSE lo + 256 * hi

\* samples are the samples of the bytes B of even length: BytesLen(B) / 2 of
\* them, the k-th being the signed integer of bytes 2k-1 and 2k (1-based),
\* over 32768.  The samples past the explicit bytes of B are those of zero
\* bytes: every run that starts there is a run of 0.
SamplesOf(samples, B) ==
  \A v \in {samples} : \A n \in {BytesLen(B) \div 2} :
    \A np \in {Min(n, (Len(B.pre) + 1) \div 2 + 1)} :
      /\ VecLen(v) = n
      /\ \A k \in (1..np) \cup (IF n > 0 THEN {n} ELSE {}) :
           VecAt(v, k) = Signed16(ByteAt(B, 2 * k - 1), ByteAt(B, 2 * k))
      /\ \A j \in 1..Len(v) :
           VecLen(SubSeq(v, 1, j - 1)) >= np => v[j][1] = 0

\* C22: for the data of every text Audio frame taken, decode_audio fails when
\* the decoded bytes are of odd length, and the frame is then answered with
\* the Error and the session left as it is; when they are of even length it
\* gives their samples, in order; the bytes 00 00 FF 7F give 0 and 32767.
C22_DecodeAudio ==
  [][(FrameTaken /\ IsTextAudio(frame') /\ FrameMsg(frame').sample_rate = SAMPLE_RATE)
       => \A dec \in {Base64Decode(FrameMsg(frame').data)} :
            \A d \in {decode_audio(FrameMsg(frame').data)} :
              dec.ok =>
                /\ BytesLen(dec.bytes) % 2 = 1 =>
                     /\ ~d.ok
                     /\ sent' = <<Error("Failed to decode audio")>>
                     /\ session' = session
                /\ BytesLen(dec.bytes) % 2 = 0 =>
                     /\ d.ok
                     /\ SamplesOf(d.samples, dec.bytes)
                     /\ BytesNorm(dec.bytes) = BytesNorm(PcmTiny) =>
                          d.samples = << <<0, 1>>, <<32767, 1>> >>]_vars

\* A frame of 7998 samples, the first one negative, was decoded and appended
\* to a buffer that held the samples 0 and 32767.
C22_Witness ==
  /\ IsTextAudio(frame)
  /\ decode_audio(FrameMsg(frame).data).ok
  /\ VecLen(decode_audio(FrameMsg(frame).data).samples) = 7998
  /\ VecAt(decode_audio(FrameMsg(frame).data).samples, 1) < 0
  /\ VecLen(session.current_chunk) = 8000
  /\ VecAt(session.current_chunk, 2) = 32767
  /\ VecAt(session.current_chunk, 3) < 0

\* C23 as claimed: transcription_pending is true exactly while a call of the
\* session is outstanding, whichever of auto-commit, partial and End
\* started it.
C23_PendingIffOutstanding ==
  session.transcription_pending <=> calls # <<>>

\* From the session s at time t, every Audio message of the catalogue that
\* brings the buffer to SAMPLE_RATE / 2 samples or more, the interval since
\* last_transcribe_time having passed, starts a call, on either path; and End
\* is answered at once or starts a call, which is answered whatever its
\* outcome.
NotWedged(s, t) ==
  /\ \A B \in PcmPayloads :
       (/\ BytesLen(B) % 2 = 0
        /\ VecLen(s.current_chunk) + BytesLen(B) \div 2 >= SAMPLE_RATE \div 2
        /\ (s.last_transcribe_time = None
              \/ t - Unwrap(s.last_transcribe_time) >= MIN_TRANSCRIBE_INTERVAL_MS))
         => /\ TextAudioStart(s, [data |-> Base64Encode(B), sample_rate |-> SAMPLE_RATE], t).call.kind
                 # "none"
            /\ BinaryStart(s, B, t).call.kind # "none"
  /\ \A r \in {TextEndStart(s)} :
       IF r.call.kind = "none" THEN r.response # None
       ELSE \A o \in {"ok", "err", "join"} :
              TextFinish(r.session, r.call, o, t).response # None

\* C24: when a call fails, transcription_pending is false afterwards and
\* last_transcribe_time is the time of the failure, or, for End, the session
\* is that of StreamingSession::new; the loop is not left waiting; and from
\* that session, then and once the interval has passed, Audio starts calls
\* again and End is answered.
C24_NotWedgedAfterFailure ==
  [][(CallCompleted /\ Unwrap(last_call').outcome \in {"err", "join"})
       => /\ ~session'.transcription_pending
          /\ IF Head(calls).kind = "end"
             THEN session' = StreamingSession_new
             ELSE session'.last_transcribe_time = Some(now)
          /\ pc' \in {"recv", "closed"}
          /\ calls' = <<>>
          /\ NotWedged(session', now')
          /\ NotWedged(session', now' + MIN_TRANSCRIBE_INTERVAL_MS)]_vars

\* Without a context every call fails; a Partial call is outstanding on a
\* session whose call before it has failed.
C24_Witness ==
  /\ WHISPER_CTX = None
  /\ pc = "await"
  /\ Len(calls) = 1
  /\ calls[1].kind = "partial"
  /\ session.last_transcribe_time # None
  /\ nframes >= 2

\* The positions (1-based) at which the runs that end at e start.
RunStarts(e) == {IF j = 1 THEN 1 ELSE e[j - 1] + 1 : j \in 1..Len(e)}

\* c is a followed by b: the lengths add up and c agrees with a, then b, at
\* every position where a run of a, of b or of c starts, hence everywhere.
IsConcat(c, a, b) ==
  \A x \in {c} : \A y \in {a} : \A z \in {b} :
  \A ex \in {Ends(x)} : \A ey \in {Ends(y)} : \A ez \in {Ends(z)} :
  \A la \in {IF y = <<>> THEN 0 ELSE ey[Len(y)]} :
    /\ (IF x = <<>> THEN 0 ELSE ex[Len(x)]) = la + (IF z = <<>> THEN 0 ELSE ez[Len(z)])
    /\ \A k \in RunStarts(ey) \cup {la + i : i \in RunStarts(ez)} \cup RunStarts(ex) :
         VecAtE(x, ex, k) = IF k <= la THEN VecAtE(y, ey, k) ELSE VecAtE(z, ez, k - la)

\* The frame is audio that is accepted: a text Audio at SAMPLE_RATE whose data
\* decode, or a binary frame of even length.
AudioAccepted(f) ==
  \/ IsTextAudio(f) /\ ~AudioRejected(f)
  \/ f.kind = "binary" /\ BytesLen(f.data) % 2 = 0

\* The samples of the frame when AudioAccepted(f): Some(FrameSamples(f)), and
\* None when not; the frame is parsed and decoded once.
AcceptedSamples(f) ==
  IF f.kind = "binary"
  THEN IF BytesLen(f.data) % 2 = 0 THEN Some(PcmToSamples(f.data)) ELSE None
  ELSE IF f.kind # "text" THEN None
  ELSE CHOOSE o \in
         {IF ~m.ok \/ m.tag # "audio" THEN None
          ELSE IF m.sample_rate # SAMPLE_RATE THEN None
          ELSE CHOOSE q \in {IF d.ok THEN Some(d.samples) ELSE None :
                               d \in {decode_audio(m.data)}} : TRUE :
          m \in {ParseClientMessage(f.text)}} : TRUE

\* C25: add_samples leaves the buffer followed by the samples and returns
\* whether that is CHUNK_SAMPLES long or longer; and when it is, the frame
\* starts one commit call on all of it, whatever last_transcribe_time, and
\* leaves the buffer empty; a commit call that succeeds is answered with the
\* Final of its text.
C25_AddSamplesAndCommit ==
  [][/\ FrameTaken =>
          \A S \in {Unwrap(o) : o \in {AcceptedSamples(frame')} \ {None}} :
          \A a \in {add_samples(session, S)} :
            /\ IsConcat(a.session.current_chunk, session.current_chunk, S)
            /\ a.ret <=> VecLen(session.current_chunk) + VecLen(S) >= CHUNK_SAMPLES
            /\ VecLen(session.current_chunk) + VecLen(S) >= CHUNK_SAMPLES =>
                 /\ Len(calls') = 1
                 /\ calls = <<>>
                 /\ calls'[1].kind = "commit"
                 /\ IsConcat(calls'[1].audio_data, session.current_chunk, S)
                 /\ session'.current_chunk = <<>>
                 /\ sent' = <<>>
     /\ (CallCompleted /\ Head(calls).kind = "commit" /\ Unwrap(last_call').outcome = "ok") =>
          sent' = <<Final(ResultText(Head(calls).audio_data))>>]_vars

\* A commit call on CHUNK_SAMPLES samples exactly is outstanding, started at
\* the very time the call before it was done.
C25_Witness ==
  /\ Len(calls) = 1
  /\ calls[1].kind = "commit"
  /\ VecLen(calls[1].audio_data) = CHUNK_SAMPLES
  /\ session.last_transcribe_time = Some(now)
  /\ session.current_chunk = <<>>

\* C26: a Partial call is started only by a frame of accepted audio, when no
\* call is outstanding and the session is not pending, on a buffer that, the
\* frame's samples appended, holds SAMPLE_RATE / 2 samples or more and fewer
\* than CHUNK_SAMPLES, and when no call was done since the last reset() or the
\* last call was done MIN_TRANSCRIBE_INTERVAL_MS ago or earlier; the call gets
\* the whole buffer, and neither its start nor its completion takes anything
\* from the buffer.
C26_PartialOnlyWhenDue ==
  [][/\ (CallStarted /\ calls'[Len(calls')].kind = "partial") =>
          /\ FrameTaken
          /\ AudioAccepted(frame')
          /\ calls = <<>>
          /\ ~session.transcription_pending
          /\ \A S \in {FrameSamples(frame')} :
               /\ VecLen(session.current_chunk) + VecLen(S) >= 8000
               /\ VecLen(session.current_chunk) + VecLen(S) < CHUNK_SAMPLES
               /\ IsConcat(session'.current_chunk, session.current_chunk, S)
          /\ \/ last_call = None
             \/ Unwrap(last_call).reset_since
             \/ /\ Unwrap(last_call).done # None
                /\ now - Unwrap(Unwrap(last_call).done) >= 500
          /\ calls'[1].audio_data = session'.current_chunk
     /\ (CallCompleted /\ Head(calls).kind = "partial") =>
          /\ session'.current_chunk = session.current_chunk
          /\ session'.current_chunk = Head(calls).audio_data]_vars

\* A Partial call on more than SAMPLE_RATE / 2 samples has succeeded; the
\* buffer still holds the samples it was given, and the call before it was
\* done MIN_TRANSCRIBE_INTERVAL_MS before it started.
C26_Witness ==
  /\ pc = "recv"
  /\ calls = <<>>
  /\ last_call # None
  /\ Unwrap(last_call).kind = "partial"
  /\ Unwrap(last_call).outcome = "ok"
  /\ ~Unwrap(last_call).reset_since
  /\ sent = <<Partial(ResultText(session.current_chunk))>>
  /\ VecLen(session.current_chunk) > SAMPLE_RATE \div 2
  /\ now = MIN_TRANSCRIBE_INTERVAL_MS

\* C27: a frame of accepted audio has its samples appended: the buffer
\* followed by the samples is what the commit call gets, when one starts, and
\* what the buffer holds otherwise; and a frame that starts no call changes
\* the buffer only, is answered with nothing, and leaves transcription_pending
\* and last_transcribe_time as they were.
C27_AcceptedIsAppended ==
  [][FrameTaken =>
       \A S \in {Unwrap(o) : o \in {AcceptedSamples(frame')} \ {None}} :
         /\ IF CallStarted /\ calls'[Len(calls')].kind = "commit"
            THEN IsConcat(calls'[Len(calls')].audio_data, session.current_chunk, S)
            ELSE IsConcat(session'.current_chunk, session.current_chunk, S)
         /\ ~CallStarted =>
              /\ session'.transcription_pending = session.transcription_pending
              /\ session'.last_transcribe_time = session.last_transcribe_time
              /\ calls' = calls
              /\ sent' = <<>>
              /\ pc' = pc]_vars

\* A text Audio was throttled: the buffer holds more than SAMPLE_RATE / 2
\* samples, the last call was done less than MIN_TRANSCRIBE_INTERVAL_MS ago,
\* and the frame started no call and was not answered.
C27_Witness ==
  /\ pc = "recv"
  /\ IsTextAudio(frame)
  /\ ~AudioRejected(frame)
  /\ VecLen(FrameSamples(frame)) > 0
  /\ ~FrameStartedCall
  /\ sent = <<>>
  /\ VecLen(session.current_chunk) > SAMPLE_RATE \div 2
  /\ session.last_transcribe_time # None
  /\ now - Unwrap(session.last_transcribe_time) < MIN_TRANSCRIBE_INTERVAL_MS
  /\ ~session.transcription_pending

\* The call started last is done in this step, and has failed.
CallFailed ==
  /\ last_call # None
  /\ Unwrap(last_call).done = None
  /\ last_call' # None
  /\ Unwrap(last_call').done # None
  /\ Unwrap(last_call').outcome # "ok"

\* C28: a call starts only in the step that takes a frame, for that frame, and
\* is then the only call outstanding, so a frame starts one call at most; and
\* the step in which a call fails leaves no call outstanding, so the next call
\* is started by a frame taken later.
C28_OneCallPerFrameNoRetry ==
  [][/\ CallStarted =>
          /\ FrameTaken
          /\ calls = <<>>
          /\ Len(calls') = 1
          /\ calls'[1].frame = nframes'
     /\ (calls' # calls /\ ~FrameTaken) => calls' = Tail(calls)
     /\ CallFailed =>
          /\ calls' = <<>>
          /\ pc' # "await"
          /\ ~FrameTaken]_vars

\* A commit call has failed with an engine error; a Ping was taken after
\* that, and no call is outstanding.
C28_Witness ==
  /\ pc = "recv"
  /\ calls = <<>>
  /\ last_call # None
  /\ Unwrap(last_call).kind = "commit"
  /\ Unwrap(last_call).outcome = "err"
  /\ ~Unwrap(last_call).cur
  /\ frame.kind = "ping"
  /\ WHISPER_CTX # None

\* The snapshot the End handled in this step takes.
EndSnapshot == IF CallStarted THEN calls'[Len(calls')].audio_data ELSE <<>>

\* C29: since reset() ran last, the snapshots of the commit calls, one after
\* the other, followed by what the buffer holds are the samples add_samples
\* was given, in order; so when End is handled, the commit snapshots followed
\* by the snapshot End takes are, sample by sample, all the samples accepted
\* since the reset, and End leaves none behind; and only the handling of a
\* frame changes any of them.
C29_SnapshotsAreAccepted ==
  [][/\ FrameTaken => accepted' = VecExtend(committed', session'.current_chunk)
     /\ (FrameTaken /\ IsTextTag(frame', "end")) =>
          /\ IsConcat(accepted, committed, EndSnapshot)
          /\ session'.current_chunk = <<>>
     /\ ~FrameTaken =>
          /\ committed' = committed
          /\ accepted' = accepted
          /\ session'.current_chunk = session.current_chunk]_vars

\* A commit call took its snapshot and was done, audio was accepted after it,
\* and reset() has not run since: what End would take is the rest of the
\* accepted samples.
C29_Witness ==
  /\ pc = "recv"
  /\ calls = <<>>
  /\ committed # <<>>
  /\ session.current_chunk # <<>>
  /\ VecLen(accepted) = VecLen(committed) + VecLen(session.current_chunk)
  /\ VecLen(accepted) > CHUNK_SAMPLES

\* C30: when the loop is at receiver.next(), and so when the handler of the
\* frame it takes locks the session, transcription_pending is false and the
\* buffer holds fewer than CHUNK_SAMPLES samples; and should_transcribe, which
\* the audio handlers ask when add_samples has returned false, answers by
\* last_transcribe_time alone.
C30_IdleAtLoopHead ==
  [][/\ pc' = "recv" =>
          /\ ~session'.transcription_pending
          /\ VecLen(session'.current_chunk) < CHUNK_SAMPLES
     /\ FrameTaken =>
          /\ ~session.transcription_pending
          /\ VecLen(session.current_chunk) < CHUNK_SAMPLES
          /\ calls = <<>>
     /\ FrameTaken =>
          \A S \in {Unwrap(o) : o \in {AcceptedSamples(frame')} \ {None}} :
          \A a \in {add_samples(session, S)} :
            ~a.ret =>
              /\ ~a.session.transcription_pending
              /\ should_transcribe(a.session, now) <=>
                   \/ session.last_transcribe_time = None
                   \/ now - Unwrap(session.last_transcribe_time) >= MIN_TRANSCRIBE_INTERVAL_MS]_vars

\* The worker task of a Partial call has failed, and the loop has since taken
\* a text Audio that was buffered: the session is not pending.
C30_Witness ==
  /\ pc = "recv"
  /\ last_call # None
  /\ Unwrap(last_call).kind = "partial"
  /\ Unwrap(last_call).outcome = "join"
  /\ ~Unwrap(last_call).cur
  /\ IsTextAudio(frame)
  /\ ~AudioRejected(frame)
  /\ VecLen(FrameSamples(frame)) > 0
  /\ ~session.transcription_pending
  /\ VecLen(session.current_chunk) < CHUNK_SAMPLES

====
